---- MODULE Spec2Model ----
(***************************************************************************)
(* House expense manager: the expenses table with its row-level policies   *)
(* and triggers (src/unnamed/part_000), the Dashboard component            *)
(* (src/unnamed/part_001) and the AddExpenseDialog component               *)
(* (src/next.config.mjs, lines 19-177).                                    *)
(*                                                                         *)
(* Representation.  Text (the value of an input, a date string, a month    *)
(* string) is a sequence of one-character strings.  An amount held by the  *)
(* store or by the Dashboard is an integer number of cents: the column is  *)
(* DECIMAL(10,2), and the binary rounding of the JavaScript sums is far    *)
(* below the two decimals that toFixed(2) displays.                        *)
(***************************************************************************)
EXTENDS Integers, Sequences, FiniteSets, TLC

\* ------------------------------------------------------------------ bounds
MaxRecords == 2
MaxInFlight == 2
MaxLen == 3

\* --------------------------------------------------------------- constants
Users == {"u1", "u2"}
NoUser == "null"
Categories == {"groceries", "water", "electricity", "gas"}
\* a JSON number is <<cents>>; JSON.stringify turns NaN into null, here <<>>
Null == <<>>
NoError == ""

\* -------------------------------------------------------------------- text
Digits == <<"0", "1", "2", "3", "4", "5", "6", "7", "8", "9">>

\* UTF-16 code unit of the characters that occur in dates and amounts
CharCodes ==
  [c \in {"-", "."} \cup {Digits[i] : i \in 1..10} |->
     IF c = "-" THEN 45 ELSE IF c = "." THEN 46 ELSE 47 + (CHOOSE i \in 1..10 : Digits[i] = c)]

CharCode(c) == CharCodes[c]

DigitVal(c) == CharCode(c) - 48

IsDigit(c) == c \in DOMAIN CharCodes /\ CharCode(c) >= 48

RECURSIVE Pad(_, _)
\* String(n).padStart(w, "0"), as toISOString pads year, month and day
Pad(n, w) == IF w = 0 THEN <<>> ELSE Pad(n \div 10, w - 1) \o <<Digits[(n % 10) + 1]>>

RECURSIVE ParseNat(_)
ParseNat(t) == IF t = <<>> THEN 0 ELSE 10 * ParseNat(SubSeq(t, 1, Len(t) - 1)) + DigitVal(t[Len(t)])

AllDigits(t) == \A i \in 1..Len(t) : IsDigit(t[i])

RECURSIVE TextLess(_, _)
\* a < b as PostgreSQL compares two text values of these characters
TextLess(a, b) ==
  IF b = <<>> THEN FALSE
  ELSE IF a = <<>> THEN TRUE
  ELSE IF Head(a) # Head(b) THEN CharCode(Head(a)) < CharCode(Head(b))
  ELSE TextLess(Tail(a), Tail(b))

\* ------------------------------------------------------------------- dates
IsLeap(y) == (y % 4 = 0 /\ y % 100 # 0) \/ y % 400 = 0

DaysIn(y, m) ==
  IF m = 2 THEN (IF IsLeap(y) THEN 29 ELSE 28)
  ELSE IF m \in {4, 6, 9, 11} THEN 30 ELSE 31

\* new Date().toISOString().split("T")[0]
FormatDate(d) == Pad(d.y, 4) \o <<"-">> \o Pad(d.m, 2) \o <<"-">> \o Pad(d.d, 2)

\* new Date().toISOString().slice(0, 7)
FormatMonth(d) == SubSeq(FormatDate(d), 1, 7)

\* the fields of a text of the shape YYYY-MM-DD
DateFields(t) ==
  [y |-> ParseNat(SubSeq(t, 1, 4)), m |-> ParseNat(SubSeq(t, 6, 7)), d |-> ParseNat(SubSeq(t, 9, 10))]

\* whether the input conversion of the DATE type accepts the text: the shape
\* YYYY-MM-DD and a day that the month has
ValidDate(t) ==
  /\ Len(t) = 10 /\ t[5] = "-" /\ t[8] = "-"
  /\ AllDigits(SubSeq(t, 1, 4)) /\ AllDigits(SubSeq(t, 6, 7)) /\ AllDigits(SubSeq(t, 9, 10))
  /\ LET f == DateFields(t)
     IN /\ f.m \in 1..12
        /\ f.d >= 1
        /\ f.d <= DaysIn(f.y, f.m)

\* input conversion of the DATE type, for a text it accepts
DateIn(t) == DateFields(t)

DateLess(a, b) ==
  \/ a.y < b.y
  \/ a.y = b.y /\ a.m < b.m
  \/ a.y = b.y /\ a.m = b.m /\ a.d < b.d

\* ------------------------------------------------------------ month selector
\* date.setMonth(date.getMonth() - i): the month index is normalised into the
\* year, the day of the month is kept, and a day past the end of the target
\* month rolls over into the following month
SetMonthBack(d, i) ==
  LET k == (d.y * 12 + (d.m - 1)) - i
      y == k \div 12
      m == (k % 12) + 1
  IN IF d.d <= DaysIn(y, m) THEN [y |-> y, m |-> m, d |-> d.d]
     ELSE [y |-> (IF m = 12 THEN y + 1 ELSE y), m |-> (IF m = 12 THEN 1 ELSE m + 1), d |-> d.d - DaysIn(y, m)]

\* Array.from({ length: 12 }, (_, i) => ... value): the values of the selector
MonthOptions(d) == [i \in 1..12 |-> FormatMonth(SetMonthBack(d, i - 1))]

\* ------------------------------------------------------------- aggregation
RECURSIVE SumFrom(_, _)
\* expenses.reduce((sum, expense) => sum + expense.amount, 0), left to right
SumFrom(sum, es) == IF es = <<>> THEN sum ELSE SumFrom(sum + Head(es).amount, Tail(es))

\* TotalExpenses with a loop that stops one record short
TotalExpensesShort(es) == IF es = <<>> THEN 0 ELSE SumFrom(0, SubSeq(es, 1, Len(es) - 1))

TotalExpenses(es) == SumFrom(0, es)

EmptyMap == [c \in {} |-> 0]

\* AccStep that assigns the amount where it should add it
AccStepAssign(acc, e) ==
  [c \in DOMAIN acc \cup {e.category} |-> IF c = e.category THEN e.amount ELSE acc[c]]

\* acc[expense.category] = (acc[expense.category] || 0) + expense.amount
AccStep(acc, e) ==
  LET old == IF e.category \in DOMAIN acc /\ acc[e.category] # 0 THEN acc[e.category] ELSE 0
  IN [c \in DOMAIN acc \cup {e.category} |-> IF c = e.category THEN old + e.amount ELSE acc[c]]

RECURSIVE GroupFrom(_, _)
GroupFrom(acc, es) == IF es = <<>> THEN acc ELSE GroupFrom(AccStep(acc, Head(es)), Tail(es))

ExpensesByCategory(es) == GroupFrom(EmptyMap, es)

\* ------------------------------------------------------------ amount input
\* the digits of an amount text after its sign: whole part, optional fraction
AmountParts(t) ==
  LET dot == {i \in 1..Len(t) : t[i] = "."}
  IN IF dot = {} THEN [whole |-> t, frac |-> <<>>]
     ELSE LET p == CHOOSE i \in dot : \A j \in dot : i <= j
          IN [whole |-> SubSeq(t, 1, p - 1), frac |-> SubSeq(t, p + 1, Len(t))]

\* Number.parseFloat(amount) as the request body carries it: <<cents>> for a
\* text the number input (step 0.01) accepts, null for NaN (the empty text)
ParseFloat(t) ==
  LET neg == t # <<>> /\ Head(t) = "-"
      body == IF neg THEN Tail(t) ELSE t
      parts == AmountParts(body)
      frac2 == SubSeq(parts.frac \o <<"0", "0">>, 1, 2)
  IN IF body = <<>> \/ ~AllDigits(parts.whole) \/ ~AllDigits(parts.frac) \/ Len(parts.frac) > 2
     THEN Null
     ELSE LET cents == 100 * ParseNat(parts.whole) + ParseNat(frac2)
          IN IF neg THEN <<0 - cents>> ELSE <<cents>>

\* ------------------------------------------------------------------- state
VARIABLES
  store,            \* the rows of table expenses, in insertion order
  origin,           \* history: for each row, who created it and through what
  dateColumnType,   \* the type of column date in the deployed table
  uid,              \* auth.uid() of the browser session
  now,              \* the current date, new Date()
  mounted,          \* the Dashboard's mount effect has run
  expenses,         \* Dashboard: useState<Expense[]>([])
  loading,          \* Dashboard: useState(true)
  selectedMonth,    \* Dashboard: useState(new Date().toISOString().slice(0, 7))
  showAddDialog,    \* Dashboard: useState(false)
  fetches,          \* the fetchExpenses calls awaiting the store, in issue order
  amount,           \* AddExpenseDialog: useState("")
  category,         \* AddExpenseDialog: useState("")
  description,      \* AddExpenseDialog: useState("")
  date,             \* AddExpenseDialog: useState(today)
  formLoading,      \* AddExpenseDialog: useState(false)
  error,            \* AddExpenseDialog: useState("")
  pending,          \* the handleSubmit call awaiting the store, if any
  totalShown,       \* the total the Dashboard last rendered
  byCategoryShown,  \* the per-category cards the Dashboard last rendered
  rendered,         \* the aggregation view has rendered
  monthList         \* the month selector's values, once rendered

vars == <<store, origin, dateColumnType, uid, now, mounted, expenses, loading, selectedMonth,
          showAddDialog, fetches, amount, category, description, date,
          formLoading, error, pending, totalShown, byCategoryShown, rendered, monthList>>

storeVars == <<store, origin, dateColumnType, uid, now>>
dashVars == <<mounted, expenses, loading, selectedMonth, showAddDialog, fetches>>
fieldVars == <<amount, category, description, date>>
formVars == <<amount, category, description, date, formLoading, error, pending>>
viewVars == <<totalShown, byCategoryShown, rendered, monthList>>

\* ------------------------------------------------------------------- store
\* the date column as the table definition types it, or as text where an
\* earlier table is left in place by CREATE TABLE IF NOT EXISTS
ColumnTypes == {"date", "text"}

\* whether column date takes the text a client sent
DateColumnAccepts(t) == dateColumnType = "date" => ValidDate(t)

\* the value of column date as the store gives it back
DateColumnOut(t) == IF dateColumnType = "date" THEN FormatDate(DateIn(t)) ELSE t

\* stored < bound and stored >= bound, as the column's type compares
ColumnLess(a, b) == IF dateColumnType = "date" THEN DateLess(DateIn(a), DateIn(b)) ELSE TextLess(a, b)

\* set_user_id(): NEW.user_id = auth.uid(), whatever the payload carried
SetUserId(caller, payload) == caller

\* policy "Users can insert own expenses": WITH CHECK (auth.uid() = user_id);
\* a comparison with NULL is not true
InsertCheck(caller, row) == caller # NoUser /\ row.user_id # NoUser /\ caller = row.user_id

\* policy "Users can view own expenses": USING (auth.uid() = user_id)
SelectUsing(caller, row) == caller # NoUser /\ row.user_id # NoUser /\ caller = row.user_id

\* policy "Users can update own expenses": USING (auth.uid() = user_id); with
\* no WITH CHECK clause the USING expression also checks the updated row
UpdateUsing(caller, row) == caller # NoUser /\ row.user_id # NoUser /\ caller = row.user_id

\* UpdateCheck of a policy written WITH CHECK (true)
UpdateCheckNone(caller, row) == TRUE

UpdateCheck(caller, row) == UpdateUsing(caller, row)

\* INSERT INTO expenses: the row to store, or the error the store answers
StoreInsert(caller, payload) ==
  IF payload.amount = Null
  THEN [error |-> "null value in column amount violates not-null constraint"]
  ELSE IF ~DateColumnAccepts(payload.date)
  THEN [error |-> "invalid input syntax for type date"]
  ELSE LET row == [id |-> Len(store) + 1,
                   user_id |-> SetUserId(caller, payload),
                   amount |-> payload.amount[1],
                   category |-> payload.category,
                   description |-> payload.description,
                   date |-> DateColumnOut(payload.date)]
       IN IF ~InsertCheck(caller, row)
          THEN [error |-> "new row violates row-level security policy"]
          ELSE [error |-> NoError, row |-> row]

\* the error of SELECT ... WHERE date >= lo AND date < hi, if it has one
SelectError(lo, hi) ==
  IF ~DateColumnAccepts(lo) \/ ~DateColumnAccepts(hi)
  THEN "date/time field value out of range"
  ELSE NoError

\* the indexes of the rows the SELECT matches for the caller
SelectMatches(caller, lo, hi) ==
  {i \in 1..Len(store) : /\ SelectUsing(caller, store[i])
                         /\ ~ColumnLess(store[i].date, lo)
                         /\ ColumnLess(store[i].date, hi)}

\* ORDER BY date DESC: every arrangement of the matches with no date rising
\* (rows of one date come in any order)
SelectOrdered(caller, lo, hi) ==
  LET ms == SelectMatches(caller, lo, hi)
  IN {[k \in DOMAIN p |-> store[p[k]]] :
        p \in {q \in [1..Cardinality(ms) -> ms] :
                 /\ \A a, b \in DOMAIN q : a < b => q[a] # q[b]
                 /\ \A a \in DOMAIN q :
                      a + 1 \in DOMAIN q => ~ColumnLess(store[q[a]].date, store[q[a + 1]].date)}}

\* ------------------------------------------------------------------ inputs
Today == [y |-> 2024, m |-> 2, d |-> 1]

\* what the user types into the form
FormEntries ==
  {[amount |-> <<"4", "5", ".", "5", "0">>, category |-> "groceries", description |-> "Weekly shop",
    date |-> FormatDate([y |-> 2024, m |-> 1, d |-> 31])],
   [amount |-> <<"-", "5", ".", "0", "0">>, category |-> "water", description |-> "Refund",
    date |-> FormatDate(Today)]}

\* the entries of the month selector the user picks: this month, last month
MonthChoices == {1, 2}

\* who is signed in to the browser session, and who uses the store besides
SessionUsers == {"u1"}
OtherUsers == Users \ SessionUsers
FaultMessages == {"insufficient permissions"}

\* what another client of the store sends: a row that names an owner
ApiPayloads ==
  {[amount |-> <<1200>>, category |-> "gas", description |-> "Refill",
    date |-> FormatDate([y |-> 2024, m |-> 1, d |-> 31]), user_id |-> v] : v \in SessionUsers}

\* what another client sets in an update: an owner for the row
ApiPatches == {[user_id |-> v] : v \in Users}

\* --------------------------------------------------------------- Dashboard
\* fetchExpenses up to its await, for the month its closure holds
IssueFetch(month) ==
  /\ loading' = TRUE
  /\ fetches' = Append(fetches, [month |-> month])

RemoveAt(s, i) == SubSeq(s, 1, i - 1) \o SubSeq(s, i + 1, Len(s))

\* useEffect(() => { getUser(); fetchExpenses() }, [selectedMonth]) on mount
Mount ==
  /\ ~mounted
  /\ mounted' = TRUE
  /\ IssueFetch(selectedMonth)
  /\ UNCHANGED <<expenses, selectedMonth, showAddDialog>>
  /\ UNCHANGED <<storeVars, formVars, viewVars>>

\* <Select onValueChange={setSelectedMonth}>, then the effect for the new month
ChangeMonth(k) ==
  /\ mounted
  /\ ~showAddDialog
  /\ MonthOptions(now)[k] # selectedMonth
  /\ Len(fetches) < MaxInFlight
  /\ selectedMonth' = MonthOptions(now)[k]
  /\ IssueFetch(MonthOptions(now)[k])
  /\ UNCHANGED <<mounted, expenses, showAddDialog>>
  /\ UNCHANGED <<storeVars, formVars, viewVars>>

\* fetchExpenses after its await, with an answer that carries an error: the
\* error goes to console.error and the list is left as it is
FetchFailed(i) ==
  /\ loading' = FALSE
  /\ fetches' = RemoveAt(fetches, i)
  /\ UNCHANGED expenses

\* FetchSucceeded with request sequencing: an answer for a month that is no
\* longer the selected one is dropped
FetchSucceededSequenced(i, data) ==
  /\ expenses' = IF fetches[i].month = selectedMonth THEN data ELSE expenses
  /\ loading' = FALSE
  /\ fetches' = RemoveAt(fetches, i)

\* fetchExpenses after its await, with an answer that carries rows
FetchSucceeded(i, data) ==
  /\ expenses' = data
  /\ loading' = FALSE
  /\ fetches' = RemoveAt(fetches, i)

\* .gte("date", `${selectedMonth}-01`)
MonthStart(month) == month \o <<"-", "0", "1">>

\* .lt("date", `${selectedMonth}-32`)
MonthEnd(month) == month \o <<"-", "3", "2">>

\* the store answers the i-th call awaiting it, and fetchExpenses resumes
FetchAnswer(i) ==
  /\ i \in 1..Len(fetches)
  /\ LET lo == MonthStart(fetches[i].month)
         hi == MonthEnd(fetches[i].month)
     IN IF SelectError(lo, hi) # NoError
        THEN FetchFailed(i)
        ELSE \E data \in SelectOrdered(uid, lo, hi) : FetchSucceeded(i, data)
  /\ UNCHANGED <<mounted, selectedMonth, showAddDialog>>
  /\ UNCHANGED <<storeVars, formVars, viewVars>>

\* the i-th call awaiting the store fails on the way (network, permission)
FetchFault(i) ==
  /\ i \in 1..Len(fetches)
  /\ FetchFailed(i)
  /\ UNCHANGED <<mounted, selectedMonth, showAddDialog>>
  /\ UNCHANGED <<storeVars, formVars, viewVars>>

\* <Button onClick={() => setShowAddDialog(true)}>
OpenDialog ==
  /\ mounted
  /\ ~showAddDialog
  /\ showAddDialog' = TRUE
  /\ UNCHANGED <<mounted, expenses, loading, selectedMonth, fetches>>
  /\ UNCHANGED <<storeVars, formVars, viewVars>>

\* Cancel, Escape or a click outside: onOpenChange(false)
CloseDialog ==
  /\ showAddDialog
  /\ showAddDialog' = FALSE
  /\ UNCHANGED <<mounted, expenses, loading, selectedMonth, fetches>>
  /\ UNCHANGED <<storeVars, formVars, viewVars>>

\* -------------------------------------------------------- AddExpenseDialog
\* the user fills in the four inputs: setAmount, setCategory, setDescription
\* and setDate, each with the value typed or picked
FillForm(e) ==
  /\ showAddDialog
  /\ amount' = e.amount
  /\ category' = e.category
  /\ description' = e.description
  /\ date' = e.date
  /\ UNCHANGED <<formLoading, error, pending>>
  /\ UNCHANGED <<storeVars, dashVars, viewVars>>

\* the row handleSubmit sends: these four fields and no other
InsertPayload ==
  [amount |-> ParseFloat(amount), category |-> category, description |-> description, date |-> date]

\* the form submits: every required field is filled and the submit button is
\* enabled (disabled={loading || !supabase}, so the branch of handleSubmit for
\* a missing client is never the one that runs).  handleSubmit up to its
\* await; onExpenseAdded is the fetchExpenses of the render that is current
\* now, with the month that render holds.
HandleSubmit ==
  /\ showAddDialog
  /\ ~formLoading
  /\ amount # <<>> /\ category # "" /\ description # "" /\ date # <<>>
  /\ formLoading' = TRUE
  /\ error' = ""
  /\ pending' = <<[payload |-> InsertPayload, month |-> selectedMonth]>>
  /\ UNCHANGED fieldVars
  /\ UNCHANGED <<storeVars, dashVars, viewVars>>

\* SubmitFailed that also resets the form
SubmitFailedResets(message) ==
  /\ error' = message
  /\ formLoading' = FALSE
  /\ pending' = <<>>
  /\ amount' = <<>>
  /\ category' = ""
  /\ description' = ""
  /\ date' = FormatDate(now)
  /\ UNCHANGED dashVars

\* handleSubmit after its await, with an error in the answer
SubmitFailed(message) ==
  /\ error' = message
  /\ formLoading' = FALSE
  /\ pending' = <<>>
  /\ UNCHANGED fieldVars
  /\ UNCHANGED dashVars

\* SubmitSucceeded without onOpenChange(false)
SubmitSucceededStaysOpen(month) ==
  /\ amount' = <<>>
  /\ category' = ""
  /\ description' = ""
  /\ date' = FormatDate(now)
  /\ IssueFetch(month)
  /\ formLoading' = FALSE
  /\ pending' = <<>>
  /\ UNCHANGED <<showAddDialog, error, mounted, expenses, selectedMonth>>

\* handleSubmit after its await, with no error in the answer
SubmitSucceeded(month) ==
  /\ amount' = <<>>
  /\ category' = ""
  /\ description' = ""
  /\ date' = FormatDate(now)
  /\ IssueFetch(month)
  /\ showAddDialog' = FALSE
  /\ formLoading' = FALSE
  /\ pending' = <<>>
  /\ UNCHANGED <<error, mounted, expenses, selectedMonth>>

\* the store answers the insert, and handleSubmit resumes
InsertAnswer ==
  /\ pending # <<>>
  /\ LET res == StoreInsert(uid, pending[1].payload)
     IN IF res.error # NoError
        THEN /\ SubmitFailed(res.error)
             /\ UNCHANGED <<store, origin>>
        ELSE /\ Len(store) < MaxRecords
             /\ Len(fetches) < MaxInFlight
             /\ store' = Append(store, res.row)
             /\ origin' = Append(origin, [by |-> uid, via |-> "form"])
             /\ SubmitSucceeded(pending[1].month)
  /\ UNCHANGED <<dateColumnType, uid, now, viewVars>>

\* the insert fails on the way (network, permission) with a message
InsertFault(message) ==
  /\ pending # <<>>
  /\ SubmitFailed(message)
  /\ UNCHANGED <<storeVars, viewVars>>

\* ----------------------------------------------------- other store clients
\* an insert sent to the store by a client signed in as caller
ApiInsert(caller, payload) ==
  /\ Len(store) < MaxRecords
  /\ LET res == StoreInsert(caller, payload)
     IN /\ res.error = NoError
        /\ store' = Append(store, res.row)
        /\ origin' = Append(origin, [by |-> caller, via |-> "api"])
  /\ UNCHANGED <<dateColumnType, uid, now, dashVars, formVars, viewVars>>

\* UPDATE expenses SET ... WHERE id = ... by a client signed in as caller
ApiUpdate(caller, i, patch) ==
  /\ i \in 1..Len(store)
  /\ UpdateUsing(caller, store[i])
  /\ LET new == [f \in DOMAIN store[i] |-> IF f \in DOMAIN patch THEN patch[f] ELSE store[i][f]]
     IN /\ UpdateCheck(caller, new)
        /\ store' = [store EXCEPT ![i] = new]
  /\ UNCHANGED <<origin, dateColumnType, uid, now, dashVars, formVars, viewVars>>

\* ------------------------------------------------------------- the program
InitStore ==
  /\ store = <<>>
  /\ origin = <<>>
  /\ dateColumnType \in ColumnTypes
  /\ uid \in SessionUsers
  /\ now = Today

InitDashboard ==
  /\ mounted = FALSE
  /\ expenses = <<>>
  /\ loading = TRUE
  /\ selectedMonth = FormatMonth(now)
  /\ showAddDialog = FALSE
  /\ fetches = <<>>

InitForm ==
  /\ amount = <<>>
  /\ category = ""
  /\ description = ""
  /\ date = FormatDate(now)
  /\ formLoading = FALSE
  /\ error = ""
  /\ pending = <<>>

InitView ==
  /\ totalShown = 0
  /\ byCategoryShown = EmptyMap
  /\ rendered = FALSE
  /\ monthList = <<>>

Init == InitStore /\ InitDashboard /\ InitForm /\ InitView

Next ==
  \/ Mount
  \/ \E k \in MonthChoices : ChangeMonth(k)
  \/ \E i \in 1..MaxInFlight : FetchFault(i)
  \/ \E i \in 1..MaxInFlight : FetchAnswer(i)
  \/ OpenDialog
  \/ CloseDialog
  \/ \E e \in FormEntries : FillForm(e)
  \/ HandleSubmit
  \/ InsertAnswer
  \/ \E m \in FaultMessages : InsertFault(m)
  \/ \E u \in OtherUsers : \E p \in ApiPayloads : ApiInsert(u, p)
  \/ \E u \in OtherUsers : \E i \in 1..MaxRecords : \E p \in ApiPatches : ApiUpdate(u, i, p)

Spec == Init /\ [][Next]_vars

\* ------------------------------------------- the aggregation on its own
\* the rows a fetch can hand to the Dashboard: any amount the table takes,
\* any of the four categories
AggAmounts == {0, 4550, 0 - 500}

AggLists ==
  UNION {{[i \in 1..n |-> [id |-> i, user_id |-> "u1", amount |-> c[i].amount, category |-> c[i].category,
                          description |-> "Weekly shop", date |-> FormatDate(Today)]] :
            c \in [1..n -> [amount : AggAmounts, category : Categories]]} : n \in 0..MaxLen}

\* a render of the Dashboard: totalExpenses and expensesByCategory of the list
Render ==
  /\ ~rendered
  /\ rendered' = TRUE
  /\ totalShown' = TotalExpenses(expenses)
  /\ byCategoryShown' = ExpensesByCategory(expenses)
  /\ UNCHANGED <<monthList, storeVars, dashVars, formVars>>

AggInit ==
  /\ InitStore /\ InitForm /\ InitView
  /\ mounted = TRUE
  /\ expenses \in AggLists
  /\ loading = FALSE
  /\ selectedMonth = FormatMonth(now)
  /\ showAddDialog = FALSE
  /\ fetches = <<>>

AggNext == Render

SpecAgg == AggInit /\ [][AggNext]_vars

\* ---------------------------------------- the month selector on its own
Years == {2023, 2024}

Days == {[y |-> y, m |-> m, d |-> d] : y \in Years, m \in 1..12, d \in 1..31}

\* a render of the month selector
RenderSelector ==
  /\ monthList = <<>>
  /\ monthList' = MonthOptions(now)
  /\ UNCHANGED <<totalShown, byCategoryShown, rendered, store, origin, dateColumnType, uid, now>>
  /\ UNCHANGED <<dashVars, formVars>>

MonthsInit ==
  /\ store = <<>>
  /\ origin = <<>>
  /\ dateColumnType \in ColumnTypes
  /\ uid \in SessionUsers
  /\ now \in {d \in Days : d.d <= DaysIn(d.y, d.m)}
  /\ InitDashboard /\ InitForm /\ InitView

MonthsNext == RenderSelector

SpecMonths == MonthsInit /\ [][MonthsNext]_vars

\* ================================================================== claims
RECURSIVE SumOver(_, _)
\* the arithmetic sum of the amounts of the rows of es at the indexes I
SumOver(es, I) ==
  IF I = {} THEN 0
  ELSE LET i == CHOOSE j \in I : TRUE IN es[i].amount + SumOver(es, I \ {i})

\* every rearrangement of the list es
Rearrangements(es) ==
  {[k \in 1..Len(es) |-> es[p[k]]] :
     p \in {q \in [1..Len(es) -> 1..Len(es)] : \A a, b \in 1..Len(es) : a # b => q[a] # q[b]}}

\* C1: the total the Dashboard shows is the arithmetic sum of the amounts of
\* the fetched records, the same for every rearrangement of the list, and
\* zero for the empty list.
C1_TotalIsSum ==
  rendered =>
    /\ totalShown = SumOver(expenses, 1..Len(expenses))
    /\ \A r \in Rearrangements(expenses) : TotalExpenses(r) = totalShown
    /\ (expenses = <<>> => totalShown = 0)

C1_Witness ==
  /\ rendered
  /\ Len(expenses) = 3
  /\ expenses[1].amount = 4550 /\ expenses[2].amount = 0 - 500 /\ expenses[3].amount = 0
  /\ totalShown = 4050

\* C2: the per-category mapping has a key exactly for the categories that
\* occur in the list, the value at a key is the sum of the amounts of the
\* records of that category alone, and the empty list gives the empty mapping.
C2_ByCategory ==
  rendered =>
    /\ DOMAIN byCategoryShown = {expenses[i].category : i \in 1..Len(expenses)}
    /\ \A c \in DOMAIN byCategoryShown :
         byCategoryShown[c] = SumOver(expenses, {i \in 1..Len(expenses) : expenses[i].category = c})
    /\ (expenses = <<>> => byCategoryShown = EmptyMap)

C2_Witness ==
  /\ rendered
  /\ Len(expenses) = 3
  /\ expenses[1].category = "gas" /\ expenses[1].amount = 0
  /\ expenses[2].category = "water" /\ expenses[2].amount = 4550
  /\ expenses[3].category = "gas" /\ expenses[3].amount = 0 - 500
  /\ DOMAIN byCategoryShown = {"gas", "water"}
  /\ byCategoryShown["gas"] = 0 - 500

\* the calendar date of a row lies in the month: same year, same month
InMonth(row, month) ==
  /\ DateFields(row.date).y = ParseNat(SubSeq(month, 1, 4))
  /\ DateFields(row.date).m = ParseNat(SubSeq(month, 6, 7))

\* C3: when the store answers a fetchExpenses call for month M, the list the
\* Dashboard then holds is made of exactly the caller's stored records whose
\* date lies in M, latest date first.
C3_FetchReturnsMonth ==
  [][\A i \in 1..MaxInFlight :
       FetchAnswer(i) =>
         /\ {expenses'[j] : j \in 1..Len(expenses')} =
              {store[k] : k \in {n \in 1..Len(store) : store[n].user_id = uid /\ InMonth(store[n], fetches[i].month)}}
         /\ \A a, b \in 1..Len(expenses') :
              a < b => ~DateLess(DateFields(expenses'[a].date), DateFields(expenses'[b].date))]_vars

\* C4: every stored record is owned by the identity that created it, whatever
\* owner a payload named and whatever updates followed; the payload of the
\* form has the four fields amount, category, description, date and no other;
\* the list a session holds has only records of the session's user.
C4_OwnerIsCreator ==
  /\ \A i \in 1..Len(store) : store[i].user_id = origin[i].by
  /\ pending # <<>> => DOMAIN pending[1].payload = {"amount", "category", "description", "date"}
  /\ \A j \in 1..Len(expenses) : expenses[j].user_id = uid

C4_Witness ==
  /\ \E i \in 1..Len(store) : origin[i].via = "api" /\ origin[i].by = "u2"
  /\ \E i \in 1..Len(store) : origin[i].via = "form" /\ origin[i].by = "u1"
  /\ expenses # <<>>

\* the step in which handleSubmit resumes after an answer without an error
SubmitSuccessStep == InsertAnswer /\ StoreInsert(uid, pending[1].payload).error = NoError

\* C5: when handleSubmit resumes after a successful answer, the step leaves
\* amount, category and description empty and date at the current date, has
\* issued exactly one fetchExpenses call, has closed the dialog and cleared
\* the loading flag; sending the request did none of this.
C5_SubmitSuccess ==
  [][/\ (Len(store') > Len(store) /\ SubmitSuccessStep) =>
          /\ amount' = <<>> /\ category' = "" /\ description' = ""
          /\ date' = FormatDate(now)
          /\ Len(fetches') = Len(fetches) + 1
          /\ SubSeq(fetches', 1, Len(fetches)) = fetches
          /\ showAddDialog' = FALSE
          /\ formLoading' = FALSE
          /\ pending' = <<>>
     /\ (pending' # pending /\ HandleSubmit) => UNCHANGED <<amount, category, description, date, fetches, showAddDialog, store>>]_vars

C5_Witness ==
  /\ \E i \in 1..Len(store) : origin[i].via = "form" /\ store[i].amount = 4550
  /\ amount = <<>> /\ category = "" /\ description = "" /\ date = FormatDate(now)
  /\ fetches # <<>>
  /\ ~showAddDialog /\ ~formLoading /\ pending = <<>>

\* C6: when handleSubmit resumes after a failure with message m, the step
\* shows m as the error, leaves the dialog as it was (open), leaves the four
\* fields as entered, issues no fetchExpenses call and no new request, stores
\* nothing, and clears the loading flag so the form can be sent again.
C6_SubmitFailure ==
  [][\A m \in FaultMessages :
       (pending' # pending /\ InsertFault(m)) =>
         /\ error' = m
         /\ showAddDialog' = showAddDialog
         /\ UNCHANGED <<amount, category, description, date>>
         /\ fetches' = fetches
         /\ pending' = <<>>
         /\ store' = store
         /\ formLoading' = FALSE]_vars

C6_Witness ==
  /\ error = "insufficient permissions"
  /\ showAddDialog
  /\ amount = <<"4", "5", ".", "5", "0">> /\ category = "groceries" /\ description = "Weekly shop"
  /\ ~formLoading /\ pending = <<>>
  /\ ENABLED HandleSubmit

MonthBefore(d, i) ==
  LET k == (d.y * 12 + (d.m - 1)) - i
  IN Pad(k \div 12, 4) \o <<"-">> \o Pad((k % 12) + 1, 2)

\* C8: the month selector has 12 entries, entry i is the month i whole months
\* before the current month, and the entries strictly decrease.
C8_TrailingMonths ==
  monthList # <<>> =>
    /\ Len(monthList) = 12
    /\ \A i \in 1..12 : monthList[i] = MonthBefore(now, i - 1)
    /\ \A i \in 1..11 : TextLess(monthList[i + 1], monthList[i])

\* C9: no record the form created has an amount below zero.
C9_NonNegativeAmount ==
  \A i \in 1..Len(store) : origin[i].via = "form" => store[i].amount >= 0

\* the rows the store holds for the caller in the month of call i
RowsOfCall(i) ==
  {store[n] : n \in SelectMatches(uid, MonthStart(fetches[i].month), MonthEnd(fetches[i].month))}

====
